---- MODULE Spec2Model ----
(***************************************************************************)
(* Model of the BPE tokenizer of src/bpe.py: BPETokenizer.train as a       *)
(* step-by-step loop, encode / decode as operations on the trained object. *)
(* A Python str is a sequence of one-character strings, a symbol is a str, *)
(* a tokenized word is a sequence of symbols.                              *)
(***************************************************************************)
EXTENDS Integers, Sequences, FiniteSets, TLC

VARIABLES pc, merges, vocab, id_to_token, special_tokens,
          texts, vocab_size_limit, min_pair_freq,
          tokenized_words, vocab_size,
          ret, trains, snap

vars == <<pc, merges, vocab, id_to_token, special_tokens,
          texts, vocab_size_limit, min_pair_freq,
          tokenized_words, vocab_size,
          ret, trains, snap>>

-----------------------------------------------------------------------------
(* Bounds of the explored inputs *)

MaxCorpus == 5
MaxInputLen == 2
MaxTrainCalls == 2
MidLimit == 7

-----------------------------------------------------------------------------
(* Constants of the program *)

WORD_END == <<"<", "/", "w", ">">>
UNK == <<"<", "u", "n", "k", ">">>
PAD == <<"<", "p", "a", "d", ">">>
BOS == <<"<", "b", "o", "s", ">">>
EOS == <<"<", "e", "o", "s", ">">>
SPACE == " "
DefaultLimit == 5000
DefaultMinFreq == 2

(* Code points of the characters the inputs are drawn from *)
Ord(c) ==
  CASE c = " " -> 32
    [] c = "/" -> 47
    [] c = "<" -> 60
    [] c = ">" -> 62
    [] c = "a" -> 97
    [] c = "b" -> 98
    [] c = "d" -> 100
    [] c = "e" -> 101
    [] c = "k" -> 107
    [] c = "n" -> 110
    [] c = "o" -> 111
    [] c = "p" -> 112
    [] c = "s" -> 115
    [] c = "u" -> 117
    [] c = "w" -> 119

Letters == {"a", "b"}
Chars == Letters \cup {SPACE}

-----------------------------------------------------------------------------
(* Sequence helpers standing for Python built-ins *)

Range(s) == {s[i] : i \in 1..Len(s)}

SeqsUpTo(S, n) == UNION {[1..k -> S] : k \in 0..n}

RECURSIVE Concat(_)
Concat(ss) == IF ss = <<>> THEN <<>> ELSE Head(ss) \o Concat(Tail(ss))

RECURSIVE JoinSpace(_)
JoinSpace(ws) ==
  IF ws = <<>> THEN <<>>
  ELSE IF Len(ws) = 1 THEN ws[1]
  ELSE ws[1] \o <<SPACE>> \o JoinSpace(Tail(ws))

(* str < str : lexicographic by code point *)
RECURSIVE StrLess(_, _)
StrLess(s, t) ==
  IF t = <<>> THEN FALSE
  ELSE IF s = <<>> THEN TRUE
  ELSE IF Ord(s[1]) # Ord(t[1]) THEN Ord(s[1]) < Ord(t[1])
  ELSE StrLess(Tail(s), Tail(t))

(* sorted(keys) *)
RECURSIVE Sorted(_)
Sorted(S) ==
  IF S = {} THEN <<>>
  ELSE LET m == CHOOSE x \in S : \A y \in S \ {x} : StrLess(x, y)
       IN <<m>> \o Sorted(S \ {m})

-----------------------------------------------------------------------------
(* normalize, src/bpe.py:22-25 *)

RECURSIVE LStrip(_)
LStrip(t) == IF t # <<>> /\ t[1] = SPACE THEN LStrip(Tail(t)) ELSE t

RECURSIVE RStrip(_)
RStrip(t) ==
  IF t # <<>> /\ t[Len(t)] = SPACE THEN RStrip(SubSeq(t, 1, Len(t) - 1)) ELSE t

RECURSIVE Collapse(_)
Collapse(t) ==
  IF t = <<>> THEN <<>>
  ELSE IF t[1] = SPACE THEN <<SPACE>> \o Collapse(LStrip(t))
  ELSE <<t[1]>> \o Collapse(Tail(t))

normalize(text) == Collapse(RStrip(LStrip(text)))

(* str.split(" "): always at least one (possibly empty) word *)
RECURSIVE SplitAcc(_, _)
SplitAcc(t, cur) ==
  IF t = <<>> THEN <<cur>>
  ELSE IF t[1] = SPACE THEN <<cur>> \o SplitAcc(Tail(t), <<>>)
  ELSE SplitAcc(Tail(t), Append(cur, t[1]))

Split(t) == SplitAcc(t, <<>>)

(* word_to_symbols, src/bpe.py:27-32 *)
word_to_symbols(word) ==
  IF word = <<>> THEN <<WORD_END>>
  ELSE [i \in 1..Len(word) |-> <<word[i]>>] \o <<WORD_END>>

-----------------------------------------------------------------------------
(* collections.Counter as the insertion-ordered list of its (key, count)   *)
(* items: a new key is appended, an existing key is counted in place.      *)

CounterInc(c, k) ==
  IF \E i \in 1..Len(c) : c[i].key = k
  THEN [i \in 1..Len(c) |-> IF c[i].key = k THEN [c[i] EXCEPT !.n = @ + 1] ELSE c[i]]
  ELSE Append(c, [key |-> k, n |-> 1])

(* c[k] += 1 for every k of ks in turn; the singleton set binds the counter *)
(* after one increment to its value before the next                         *)
RECURSIVE CounterUpdate(_, _)
CounterUpdate(c, ks) ==
  IF ks = <<>> THEN c
  ELSE CHOOSE r \in {CounterUpdate(c1, Tail(ks)) : c1 \in {CounterInc(c, Head(ks))}} : TRUE

(* Counter.most_common(1)[0]: max() over the items, the first maximum wins *)
most_common_last(c) ==
  LET i == CHOOSE j \in 1..Len(c) :
             /\ \A k \in 1..Len(c) : c[k].n <= c[j].n
             /\ \A k \in (j + 1)..Len(c) : c[k].n < c[j].n
  IN c[i]

most_common(c) ==
  LET i == CHOOSE j \in 1..Len(c) :
             /\ \A k \in 1..Len(c) : c[k].n <= c[j].n
             /\ \A k \in 1..(j - 1) : c[k].n < c[j].n
  IN c[i]

(* the adjacent pairs of one word, in scan order: src/bpe.py:38-39 *)
WordPairs(word) == [i \in 1..(Len(word) - 1) |-> <<word[i], word[i + 1]>>]

(* get_stats, src/bpe.py:34-40 *)
get_stats(tw) == CounterUpdate(<<>>, Concat([w \in 1..Len(tw) |-> WordPairs(tw[w])]))

(* the scan of one word in merge_pair, src/bpe.py:49-58 *)
RECURSIVE MergeWord(_, _, _, _)
MergeWord(a, b, word, i) ==
  IF i > Len(word) THEN <<>>
  ELSE IF i < Len(word) /\ word[i] = a /\ word[i + 1] = b
       THEN <<a \o b>> \o MergeWord(a, b, word, i + 2)
       ELSE <<word[i]>> \o MergeWord(a, b, word, i + 1)

RECURSIVE MergeWordSame(_, _, _, _)
MergeWordSame(a, b, word, i) ==
  IF i > Len(word) THEN <<>>
  ELSE IF i < Len(word) /\ word[i] = a /\ word[i + 1] = a
       THEN <<a \o b>> \o MergeWordSame(a, b, word, i + 2)
       ELSE <<word[i]>> \o MergeWordSame(a, b, word, i + 1)

merge_pair_same(pair, tw) ==
  [w \in 1..Len(tw) |-> MergeWordSame(pair[1], pair[2], tw[w], 1)]

(* merge_pair, src/bpe.py:42-59 *)
merge_pair(pair, tw) ==
  [w \in 1..Len(tw) |-> MergeWord(pair[1], pair[2], tw[w], 1)]

-----------------------------------------------------------------------------
(* dict helpers: a dict is a function from its keys *)

EmptyDict == <<>>

(* {tok: i for i, tok in enumerate(lst)}: the last index of a key wins *)
Enumerate(lst) ==
  [tok \in Range(lst) |->
     (CHOOSE i \in 1..Len(lst) :
        lst[i] = tok /\ \A j \in (i + 1)..Len(lst) : lst[j] # tok) - 1]

(* {i: t for t, i in vocab.items()} *)
Inverse(d) ==
  [i \in {d[t] : t \in DOMAIN d} |-> CHOOSE t \in DOMAIN d : d[t] = i]

DictLen(d) == Cardinality(DOMAIN d)

(* self.vocab[new_symbol] = len(self.vocab) when new_symbol is not a key *)
AddSymbolAlways(v, sym) ==
  [t \in DOMAIN v \cup {sym} |-> IF t = sym THEN DictLen(v) ELSE v[t]]

AddSymbol(v, sym) ==
  IF sym \in DOMAIN v THEN v
  ELSE [t \in DOMAIN v \cup {sym} |-> IF t = sym THEN DictLen(v) ELSE v[t]]

-----------------------------------------------------------------------------
(* train, the part before the loop: src/bpe.py:75-92 *)

CorpusWords(ts) == Concat([i \in 1..Len(ts) |-> Split(normalize(ts[i]))])

InitialTokenized(ts) ==
  LET words == CorpusWords(ts)
  IN [i \in 1..Len(words) |-> word_to_symbols(words[i])]

InitialSymbols(tw) == Sorted(UNION {Range(tw[i]) : i \in 1..Len(tw)})

InitialVocab(specials, tw) == Enumerate(specials \o InitialSymbols(tw))

-----------------------------------------------------------------------------
(* encode_word, src/bpe.py:132-155 *)

(* one pass of the inner while loop, src/bpe.py:144-153 *)
RECURSIVE EncodePass(_, _, _)
EncodePass(symbols, i, merges_lookup) ==
  IF i > Len(symbols) THEN <<>>
  ELSE IF i < Len(symbols) /\ <<symbols[i], symbols[i + 1]>> \in merges_lookup
       THEN <<symbols[i] \o symbols[i + 1]>> \o EncodePass(symbols, i + 2, merges_lookup)
       ELSE <<symbols[i]>> \o EncodePass(symbols, i + 1, merges_lookup)

(* the outer loop: a pass sets merged exactly when it shortens the list *)
RECURSIVE EncodeLoop(_, _)
EncodeLoop(symbols, merges_lookup) ==
  LET new_syms == EncodePass(symbols, 1, merges_lookup)
  IN IF Len(new_syms) < Len(symbols) THEN EncodeLoop(new_syms, merges_lookup)
     ELSE new_syms

encode_word(ms, word) ==
  IF ms = <<>> THEN [i \in 1..Len(word) |-> <<word[i]>>] \o <<WORD_END>>
  ELSE EncodeLoop([i \in 1..Len(word) |-> <<word[i]>>] \o <<WORD_END>>, Range(ms))

(* the symbols encode looks up, word by word: src/bpe.py:158-162 *)
EncodeSymbols(ms, text) ==
  LET ws == Split(normalize(text))
  IN Concat([i \in 1..Len(ws) |-> encode_word(ms, ws[i])])

(* src/bpe.py:163-164: vocab.get(s, vocab.get(UNK)), then vocab[UNK] when   *)
(* that is None, which raises KeyError when UNK is no key either            *)
LookupRaises(v, sym) == sym \notin DOMAIN v /\ UNK \notin DOMAIN v

Lookup(v, sym) == IF sym \in DOMAIN v THEN v[sym] ELSE v[UNK]

(* encode, src/bpe.py:157-165: the ids, or raised when a lookup raises *)
encode(ms, v, text) ==
  LET syms == EncodeSymbols(ms, text)
  IN IF \E i \in 1..Len(syms) : LookupRaises(v, syms[i])
     THEN [raised |-> TRUE, ids |-> <<>>, syms |-> syms]
     ELSE [raised |-> FALSE,
           ids |-> [i \in 1..Len(syms) |-> Lookup(v, syms[i])],
           syms |-> syms]

(* decode, src/bpe.py:167-183 *)
RECURSIVE DecodeLoop(_, _, _, _)
DecodeLoop(syms, specials, words, acc) ==
  IF syms = <<>> THEN (IF acc # <<>> THEN Append(words, Concat(acc)) ELSE words)
  ELSE LET s == Head(syms)
       IN IF s = WORD_END
          THEN DecodeLoop(Tail(syms), specials, Append(words, Concat(acc)), <<>>)
          ELSE IF s \in Range(specials)
               THEN DecodeLoop(Tail(syms), specials, words, acc)
               ELSE DecodeLoop(Tail(syms), specials, words, Append(acc, s))

decode(i2t, specials, token_ids) ==
  LET syms == [k \in 1..Len(token_ids) |->
                 IF token_ids[k] \in DOMAIN i2t THEN i2t[token_ids[k]] ELSE UNK]
  IN JoinSpace(DecodeLoop(syms, specials, <<>>, <<>>))

-----------------------------------------------------------------------------
(* The inputs the operations are called with *)

(* every list of texts whose characters and texts together number at most n *)
RECURSIVE ListsOfSize(_)
ListsOfSize(n) ==
  IF n = 0 THEN {<<>>}
  ELSE {<<>>} \cup
       UNION {{<<t>> \o rest : rest \in ListsOfSize(n - 1 - Len(t))} :
                t \in SeqsUpTo(Chars, n - 1)}

(* corpora that spell a special token or the word-end marker *)
SpecialCorpora ==
  {<<tok, tok \o <<c>>>> : tok \in {UNK, WORD_END}, c \in Letters}

(* corpora of a one-letter word and a longer word that ends in it twice *)
SuffixCorpora ==
  {<<<<c>>, <<d, c, c>>>> : c \in Letters, d \in Letters}

Corpora == ListsOfSize(MaxCorpus) \cup SpecialCorpora \cup SuffixCorpora

Limits == {MidLimit, DefaultLimit}

MinFreqs == {0, DefaultMinFreq}

Inputs == SeqsUpTo(Chars, MaxInputLen) \cup {UNK}

NoRet == [op |-> "none", text |-> <<>>, raised |-> FALSE, ids |-> <<>>,
          syms |-> <<>>, out |-> <<>>]

NoSnap == [set |-> FALSE, merges |-> <<>>, vocab |-> EmptyDict]

-----------------------------------------------------------------------------
(* State machine *)

(* BPETokenizer(), src/bpe.py:62-66 *)
Init ==
  /\ pc = "ready"
  /\ merges = <<>>
  /\ vocab = EmptyDict
  /\ id_to_token = EmptyDict
  /\ special_tokens = <<PAD, UNK, BOS, EOS>>
  /\ texts = <<>>
  /\ vocab_size_limit = DefaultLimit
  /\ min_pair_freq = DefaultMinFreq
  /\ tokenized_words = <<>>
  /\ vocab_size = 0
  /\ ret = NoRet
  /\ trains = 0
  /\ snap = NoSnap

(* a new BPETokenizer() replaces the trained object: src/bpe.py:62-66 *)
New ==
  /\ pc = "ready"
  /\ trains > 0
  /\ merges' = <<>>
  /\ vocab' = EmptyDict
  /\ id_to_token' = EmptyDict
  /\ special_tokens' = <<PAD, UNK, BOS, EOS>>
  /\ tokenized_words' = <<>>
  /\ vocab_size' = 0
  /\ ret' = NoRet
  /\ trains' = 0
  /\ UNCHANGED <<pc, texts, vocab_size_limit, min_pair_freq, snap>>

(* train(ts, lim, mf) up to the loop: src/bpe.py:75-92 *)
TrainCall(ts, lim, mf) ==
  /\ texts' = ts
  /\ vocab_size_limit' = lim
  /\ min_pair_freq' = mf
  /\ tokenized_words' = InitialTokenized(ts)
  /\ vocab' = InitialVocab(special_tokens, InitialTokenized(ts))
  /\ vocab_size' = DictLen(InitialVocab(special_tokens, InitialTokenized(ts)))
  /\ pc' = "loop"
  /\ trains' = trains + 1
  /\ ret' = NoRet
  /\ UNCHANGED <<merges, id_to_token, special_tokens, snap>>

(* the first train call of a behaviour chooses the arguments, every later   *)
(* call repeats them, on the same object or on a new one                    *)
TrainBegin ==
  /\ pc = "ready"
  /\ trains < MaxTrainCalls
  /\ IF snap.set
     THEN TrainCall(texts, vocab_size_limit, min_pair_freq)
     ELSE \E ts \in Corpora, lim \in Limits, mf \in MinFreqs : TrainCall(ts, lim, mf)

(* leaving the loop: src/bpe.py:129-130, and the record of the first run *)
Return ==
  /\ pc' = "ready"
  /\ id_to_token' = Inverse(vocab)
  /\ snap' = IF snap.set THEN snap
             ELSE [set |-> TRUE, merges |-> merges, vocab |-> vocab]
  /\ UNCHANGED <<merges, vocab, special_tokens, texts, vocab_size_limit,
                 min_pair_freq, tokenized_words, vocab_size, ret, trains>>

(* src/bpe.py:99-102 *)
StopLimit ==
  /\ pc = "loop"
  /\ vocab_size >= vocab_size_limit
  /\ Return

(* src/bpe.py:104-108 *)
StopNoPairs ==
  /\ pc = "loop"
  /\ vocab_size < vocab_size_limit
  /\ get_stats(tokenized_words) = <<>>
  /\ Return

(* src/bpe.py:110-114 *)
StopMinFreq ==
  /\ pc = "loop"
  /\ vocab_size < vocab_size_limit
  /\ \E stats \in {get_stats(tokenized_words)} :
       stats # <<>> /\ most_common(stats).n < min_pair_freq
  /\ Return

(* one iteration that merges: src/bpe.py:104-124; stats and best are bound *)
(* to the values the iteration computes once                               *)
Merge ==
  /\ pc = "loop"
  /\ vocab_size < vocab_size_limit
  /\ \E stats \in {get_stats(tokenized_words)} :
       /\ stats # <<>>
       /\ \E best \in {most_common(stats)} :
            LET new_symbol == best.key[1] \o best.key[2]
            IN /\ best.n >= min_pair_freq
               /\ merges' = Append(merges, best.key)
               /\ tokenized_words' = merge_pair(best.key, tokenized_words)
               /\ vocab' = AddSymbol(vocab, new_symbol)
               /\ vocab_size' = IF new_symbol \notin DOMAIN vocab
                                THEN DictLen(AddSymbol(vocab, new_symbol))
                                ELSE vocab_size
  /\ UNCHANGED <<pc, id_to_token, special_tokens, texts, vocab_size_limit,
                 min_pair_freq, ret, trains, snap>>

(* encode(text), src/bpe.py:157-165 *)
Encode ==
  /\ pc = "ready"
  /\ \E text \in Inputs :
       LET r == encode(merges, vocab, text)
       IN ret' = [op |-> "encode", text |-> text, raised |-> r.raised,
                  ids |-> r.ids, syms |-> r.syms, out |-> <<>>]
  /\ UNCHANGED <<pc, merges, vocab, id_to_token, special_tokens, texts,
                 vocab_size_limit, min_pair_freq, tokenized_words, vocab_size,
                 trains, snap>>

(* decode(ids), src/bpe.py:167-183: of the ids the last encode returned     *)
(* ("roundtrip"), or of the empty list ("decode")                           *)
Decode ==
  /\ pc = "ready"
  /\ \/ /\ ret.op = "encode"
        /\ ~ret.raised
        /\ ret' = [ret EXCEPT !.op = "roundtrip",
                              !.out = decode(id_to_token, special_tokens, ret.ids)]
     \/ /\ ret.op \in {"none", "encode"}
        /\ ret' = [NoRet EXCEPT !.op = "decode",
                                !.out = decode(id_to_token, special_tokens, <<>>)]
  /\ UNCHANGED <<pc, merges, vocab, id_to_token, special_tokens, texts,
                 vocab_size_limit, min_pair_freq, tokenized_words, vocab_size,
                 trains, snap>>

(* the operations that write the tokenizer *)
TrainNext ==
  \/ New
  \/ TrainBegin
  \/ Merge
  \/ StopLimit
  \/ StopNoPairs
  \/ StopMinFreq

Next ==
  \/ New
  \/ TrainBegin
  \/ Merge
  \/ StopLimit
  \/ StopNoPairs
  \/ StopMinFreq
  \/ Encode
  \/ Decode

Spec == Init /\ [][Next]_vars

TrainSpec == Init /\ [][TrainNext]_vars

(* the loop of train is sequential code: a call that started keeps running *)
FairTrainSpec ==
  TrainSpec /\ WF_vars(Merge \/ StopLimit \/ StopNoPairs \/ StopMinFreq)

-----------------------------------------------------------------------------
(* Vocabulary of the properties *)

CharsOf(t) == Range(t) \ {SPACE}

CorpusChars(ts) == UNION {CharsOf(ts[i]) : i \in 1..Len(ts)}

(* no leading, trailing or repeated space *)
SingleSpaced(t) ==
  \/ t = <<>>
  \/ /\ t[1] # SPACE
     /\ t[Len(t)] # SPACE
     /\ \A i \in 1..(Len(t) - 1) : ~(t[i] = SPACE /\ t[i + 1] = SPACE)

IsWord(t) == t # <<>> /\ SPACE \notin Range(t)

(* the single-character symbols of a corpus and the marker of its words *)
CorpusSymbols(ts) ==
  {<<c>> : c \in CorpusChars(ts)} \cup (IF ts # <<>> THEN {WORD_END} ELSE {})

Ids(v) == {v[s] : s \in DOMAIN v}

(* merge_pair applied to one word once per rule, in the order of the table *)
RECURSIVE ApplyInOrder(_, _)
ApplyInOrder(ms, word) ==
  IF ms = <<>> THEN word
  ELSE CHOOSE r \in {ApplyInOrder(Tail(ms), w1) :
                       w1 \in {merge_pair(Head(ms), <<word>>)[1]}} : TRUE

(* positions of adjacent pairs in a working corpus, and their scan order *)
Positions(tw) ==
  UNION {{<<w, i>> : i \in 1..(Len(tw[w]) - 1)} : w \in 1..Len(tw)}

PairAt(tw, pos) == <<tw[pos[1]][pos[2]], tw[pos[1]][pos[2] + 1]>>

Occs(p, tw) == {pos \in Positions(tw) : PairAt(tw, pos) = p}

Before(x, y) == x[1] < y[1] \/ (x[1] = y[1] /\ x[2] < y[2])

FirstOcc(p, tw) ==
  CHOOSE x \in Occs(p, tw) : \A y \in Occs(p, tw) \ {x} : Before(x, y)

Count(p, tw) == Cardinality(Occs(p, tw))

RECURSIVE TotalSymbols(_)
TotalSymbols(tw) ==
  IF tw = <<>> THEN 0 ELSE Len(Head(tw)) + TotalSymbols(Tail(tw))

MergeStep == Len(merges') = Len(merges) + 1

-----------------------------------------------------------------------------
(* C1: round trip.  After train, for a text of characters of the training  *)
(* corpus with single spaces between its words and none around them,       *)
(* decode(encode(text)) is the text.                                       *)
C1_RoundTrip ==
  (/\ ret.op = "roundtrip"
   /\ trains >= 1
   /\ CharsOf(ret.text) \subseteq CorpusChars(texts)
   /\ SingleSpaced(ret.text))
  => ret.out = ret.text

(* C2: after one train call, the symbols encode_word produces for every    *)
(* word are those of word_to_symbols(word) rewritten by merge_pair once    *)
(* per merge rule, in the recorded order.                                  *)
C2_RecordedOrder ==
  (ret.op = "encode" /\ trains = 1)
  => LET ws == Split(normalize(ret.text))
     IN ret.syms =
          Concat([i \in 1..Len(ws) |-> ApplyInOrder(merges, word_to_symbols(ws[i]))])

(* C3: every train call with the same arguments, on the same tokenizer or  *)
(* on a new one, returns with the merge table and the vocabulary of the    *)
(* first call.                                                             *)
C3_Deterministic ==
  (pc = "ready" /\ trains >= 1 /\ snap.set)
  => (merges = snap.merges /\ vocab = snap.vocab)

(* C4: when train returns the vocabulary has at most vocab_size_limit      *)
(* entries.                                                                *)
C4_HardCeiling ==
  (pc = "ready" /\ trains >= 1) => DictLen(vocab) <= vocab_size_limit

(* C5: encode("") returns the empty id list without raising, on a trained  *)
(* or a new tokenizer, and decode([]) returns "".                          *)
C5_EmptyInput ==
  /\ (ret.op = "encode" /\ ret.text = <<>>) => (~ret.raised /\ ret.ids = <<>>)
  /\ (ret.op = "decode" /\ ret.ids = <<>>) => ret.out = <<>>

(* C6: with an empty merge table, of a new tokenizer or after train on an  *)
(* empty corpus, encode of one word does not raise and returns one id per  *)
(* character and the marker's id, and decode of these ids is the word.     *)
C6_EmptyTableFallback ==
  (/\ ret.op \in {"encode", "roundtrip"}
   /\ merges = <<>>
   /\ (trains = 0 \/ CorpusChars(texts) = {})
   /\ IsWord(ret.text))
  => /\ ~ret.raised
     /\ Len(ret.ids) = Len(ret.text) + 1
     /\ ret.op = "roundtrip" => ret.out = ret.text

(* the layout of the vocabulary during and after a train call *)
VocabShape ==
  (pc = "loop" \/ trains >= 1) =>
    LET base == CorpusSymbols(texts)
        k == Cardinality(base)
    IN /\ Ids(vocab) = 0..(DictLen(vocab) - 1)
       /\ \A s, t \in DOMAIN vocab : s # t => vocab[s] # vocab[t]
       /\ {PAD, UNK, BOS, EOS} \subseteq DOMAIN vocab
       /\ vocab[PAD] = 0 /\ vocab[UNK] = 1 /\ vocab[BOS] = 2 /\ vocab[EOS] = 3
       /\ base \subseteq DOMAIN vocab
       /\ \A s \in base : vocab[s] \in 4..(3 + k)
       /\ \A s, t \in base : StrLess(s, t) => vocab[s] < vocab[t]
       /\ \A s \in DOMAIN vocab :
            vocab[s] >= 4 + k => \E i \in 1..Len(merges) : s = merges[i][1] \o merges[i][2]

(* id_to_token after train returned *)
InverseOnReturn ==
  (pc = "ready" /\ trains >= 1) =>
    /\ DOMAIN id_to_token = Ids(vocab)
    /\ \A s \in DOMAIN vocab : id_to_token[vocab[s]] = s

(* a step of the loop keeps every id and gives a new symbol the next one *)
VocabStable ==
  pc = "loop" =>
    /\ \A s \in DOMAIN vocab : s \in DOMAIN vocab' /\ vocab'[s] = vocab[s]
    /\ \A s \in DOMAIN vocab' \ DOMAIN vocab : vocab'[s] = DictLen(vocab)

(* C7: during and after train the vocabulary maps its symbols one-to-one   *)
(* onto 0..len-1: the special tokens at 0..3, then the single characters   *)
(* and the marker in sorted order, then merged symbols; a step of the loop *)
(* keeps every id and gives a new symbol the next id; on return            *)
(* id_to_token is the inverse of vocab.                                    *)
C7_VocabularyInvariant ==
  /\ [](VocabShape /\ InverseOnReturn)
  /\ [][VocabStable]_vars

(* the loop returned after a merge whose concatenation was a key already *)
C7_Witness ==
  /\ pc = "ready"
  /\ trains = 1
  /\ \E i \in 1..Len(merges) : merges[i][1] \o merges[i][2] \in {UNK, WORD_END}
  /\ DictLen(vocab) > 4 + Cardinality(CorpusSymbols(texts))

(* p has a maximal count, at least mf, and among the pairs of that count   *)
(* the earliest first occurrence                                           *)
SelectionRule(p, tw, mf) ==
  /\ Occs(p, tw) # {}
  /\ Count(p, tw) >= mf
  /\ \A pos \in Positions(tw) :
       LET q == PairAt(tw, pos)
       IN /\ Count(q, tw) <= Count(p, tw)
          /\ (q # p /\ Count(q, tw) = Count(p, tw))
               => Before(FirstOcc(p, tw), FirstOcc(q, tw))

(* C8: the pair a step of the loop appends to the merge table has, in the  *)
(* working corpus of that step, a count that is maximal and at least       *)
(* min_pair_freq, and among the pairs of that count the earliest first     *)
(* occurrence, word by word, left to right.                                *)
C8_MergeSelection ==
  [][MergeStep =>
       SelectionRule(merges'[Len(merges')], tokenized_words, min_pair_freq)]_vars

(* the first merge of a call was chosen among several pairs of the maximal *)
(* count                                                                   *)
C8_Witness ==
  /\ pc = "loop"
  /\ trains = 1
  /\ Len(merges) = 1
  /\ LET tw == InitialTokenized(texts)
     IN \E pos \in Positions(tw) :
          /\ PairAt(tw, pos) # merges[1]
          /\ Count(PairAt(tw, pos), tw) = Count(merges[1], tw)

(* C9: after one train call on a non-empty corpus, for a text of characters *)
(* of the corpus, every symbol encode looks up is a key of the vocabulary   *)
(* and no id it returns is the unknown id.                                  *)
C9_NoUnknown ==
  (/\ ret.op = "encode"
   /\ trains = 1
   /\ texts # <<>>
   /\ CharsOf(ret.text) \subseteq CorpusChars(texts))
  => /\ ~ret.raised
     /\ \A i \in 1..Len(ret.syms) : ret.syms[i] \in DOMAIN vocab
     /\ \A i \in 1..Len(ret.ids) : ret.ids[i] # vocab[UNK]

(* C10: every train call returns, and every step of the loop that records  *)
(* a merge leaves fewer symbols in the working corpus.                     *)
C10_TrainTerminates ==
  /\ [][MergeStep => TotalSymbols(tokenized_words') < TotalSymbols(tokenized_words)]_vars
  /\ (pc = "loop") ~> (pc = "ready")

(* a call with min_pair_freq <= 0 returned after a merge that did not grow *)
(* the vocabulary                                                          *)
C10_Witness ==
  /\ pc = "ready"
  /\ trains = 1
  /\ min_pair_freq <= 0
  /\ Len(merges) > DictLen(vocab) - 4 - Cardinality(CorpusSymbols(texts))

====
